---- MODULE Spec2Model ----
(***************************************************************************)
(* A model of investment_bot.py: the per-symbol technical analysis (the    *)
(* eight strategies, the signal fusion, the confirmations and the          *)
(* target/stop/risk-reward builder), the scan loop with its sort and       *)
(* truncation, the global opportunity cache, and the subscriber state      *)
(* (subscribers, watchlists, preferences) with the scheduled broadcast.    *)
(*                                                                         *)
(* Numbers: prices, averages and volumes are integers (a fixed-point       *)
(* scale); risk_reward is kept in tenths (20 is 2.0), which is the         *)
(* precision round(x, 1) leaves.  A float NaN is the value NaN below, and  *)
(* every comparison with it is false, as in Python.                        *)
(***************************************************************************)
EXTENDS Integers, Sequences, FiniteSets, TLC

\* ------------------------------------------------------------------------
\* Values
\* ------------------------------------------------------------------------

\* float('nan'): what a rolling window that is not full yields, and 0/0.
NaN == -999

\* signal = None
None == "NONE"

\* Python's <, >, <= on floats: false as soon as one side is NaN.
Lt(a, b) == a # NaN /\ b # NaN /\ a < b
Gt(a, b) == a # NaN /\ b # NaN /\ a > b
Le(a, b) == a # NaN /\ b # NaN /\ a <= b

\* a + k*b on floats: NaN propagates.
AddMul(a, k, b) == IF a = NaN \/ b = NaN THEN NaN ELSE a + k * b

\* Series.rolling(window).mean()/std() read at a row that has `bars` rows up
\* to and including itself: NaN until the window is full, else the value.
\* A window that yields its value before it is full: what C22 must notice.
RollingNoWarmUp(value, bars, window) == value

Rolling(value, bars, window) == IF bars < window THEN NaN ELSE value

\* ------------------------------------------------------------------------
\* Indicators of the last two rows (lines 108-135)
\* ------------------------------------------------------------------------

\* hist['SMA20'], hist['SMA50'], hist['SMA200'] at the row with `bars` rows.
SMA20(value, bars) == Rolling(value, bars, 20)
SMA50(value, bars) == Rolling(value, bars, 50)
SMA200(value, bars) == Rolling(value, bars, 200)

\* hist['RSI'] = 100 - 100/(1 + gain/loss), from the 14-row mean gain and
\* mean loss (both >= 0, in the same unit).  gain/loss is NaN for 0/0 and inf
\* for gain/0; 100/(1+inf) is 0.  The quotient is rounded down to an integer.
RSI(gain, loss) ==
    IF loss = 0
    THEN IF gain = 0 THEN NaN ELSE 100
    ELSE 100 - ((100 * loss) \div (loss + gain))

\* hist['BB_upper'], hist['BB_lower'] = BB_middle +/- 2 * BB_std.
BB_upper(middle, std) == AddMul(middle, 2, std)
BB_lower(middle, std) == AddMul(middle, -2, std)

\* ------------------------------------------------------------------------
\* The eight strategies (lines 144-166)
\* ------------------------------------------------------------------------

\* A golden cross that also fires when the averages touch: what C14 must
\* notice.
golden_cross_touching(pSMA20, pSMA50, cSMA20, cSMA50) ==
    Le(pSMA20, pSMA50) /\ Le(cSMA50, cSMA20)

golden_cross(pSMA20, pSMA50, cSMA20, cSMA50) ==
    Lt(pSMA20, pSMA50) /\ Gt(cSMA20, cSMA50)

rsi_bounce(pRSI, cRSI) == Lt(pRSI, 30) /\ Gt(cRSI, 30)

macd_cross(pMACD, pSignal, cMACD, cSignal) ==
    Lt(pMACD, pSignal) /\ Gt(cMACD, cSignal)

bb_bounce(pClose, pLower, cClose, cLower) ==
    Le(pClose, pLower) /\ Gt(cClose, cLower)

death_cross(pSMA50, pSMA200, cSMA50, cSMA200) ==
    Gt(pSMA50, pSMA200) /\ Lt(cSMA50, cSMA200)

rsi_overbought(cRSI) == Gt(cRSI, 70)

macd_cross_down(pMACD, pSignal, cMACD, cSignal) ==
    Gt(pMACD, pSignal) /\ Lt(cMACD, cSignal)

bb_breakout(cClose, cUpper) == Gt(cClose, cUpper)

\* ------------------------------------------------------------------------
\* Signal fusion (lines 168-218)
\* ------------------------------------------------------------------------

\* The strategy flags of one symbol, the local variables of lines 145-166.
NoStrategy ==
    [golden_cross |-> FALSE, rsi_bounce |-> FALSE, macd_cross |-> FALSE,
     bb_bounce |-> FALSE, death_cross |-> FALSE, rsi_overbought |-> FALSE,
     macd_cross_down |-> FALSE, bb_breakout |-> FALSE]

\* The condition of the k-th `if` of lines 174-218, in the order of the code.
Fired(k, st, cRSI) ==
    CASE k = 1 -> st.golden_cross
      [] k = 2 -> st.rsi_bounce
      [] k = 3 -> st.macd_cross
      [] k = 4 -> st.bb_bounce
      [] k = 5 -> st.death_cross
      [] k = 6 -> st.rsi_overbought
      [] k = 7 -> st.macd_cross_down
      [] k = 8 -> st.bb_breakout /\ Gt(cRSI, 65)

\* signal, confidence and rationale before any `if`.
FuseStart == [signal |-> None, confidence |-> 0, rationale |-> <<>>]

\* The `if` bodies of a fusion in which the first direction set is kept: the
\* SELL side never overrides a BUY.  What C5 must notice.
FuseBodyFirstWins(k, f) ==
    [signal |-> IF f.signal # None THEN f.signal
                ELSE IF k <= 4 THEN "BUY" ELSE "SELL",
     confidence |-> f.confidence
                    + (CASE k \in {1, 5} -> 30 [] k \in {2, 3, 6, 7} -> 25
                         [] OTHER -> 20),
     rationale |-> Append(f.rationale, k)]

\* The `if` bodies of a fusion in which a change of direction restarts the
\* confidence at the overriding predicate's weight.  What C6 must notice.
FuseBodyResetOnFlip(k, f) ==
    LET dir == IF k <= 4 THEN "BUY" ELSE "SELL"
        weight == CASE k \in {1, 5} -> 30 [] k \in {2, 3, 6, 7} -> 25
                    [] OTHER -> 20
    IN [signal |-> dir,
        confidence |-> IF f.signal \in {None, dir}
                       THEN f.confidence + weight ELSE weight,
        rationale |-> Append(f.rationale, k)]

\* The body of the k-th `if`, applied to the running signal/confidence.
FuseBody(k, f) ==
    CASE k = 1 -> [signal |-> "BUY", confidence |-> f.confidence + 30,
                   rationale |-> Append(f.rationale, 1)]
      [] k = 2 -> [signal |-> "BUY", confidence |-> f.confidence + 25,
                   rationale |-> Append(f.rationale, 2)]
      [] k = 3 -> [signal |-> IF f.signal # "BUY" THEN "BUY" ELSE f.signal,
                   confidence |-> f.confidence + 25,
                   rationale |-> Append(f.rationale, 3)]
      [] k = 4 -> [signal |-> IF f.signal # "BUY" THEN "BUY" ELSE f.signal,
                   confidence |-> f.confidence + 20,
                   rationale |-> Append(f.rationale, 4)]
      [] k = 5 -> [signal |-> "SELL", confidence |-> f.confidence + 30,
                   rationale |-> Append(f.rationale, 5)]
      [] k = 6 -> [signal |-> IF f.signal # "SELL" THEN "SELL" ELSE f.signal,
                   confidence |-> f.confidence + 25,
                   rationale |-> Append(f.rationale, 6)]
      [] k = 7 -> [signal |-> IF f.signal # "SELL" THEN "SELL" ELSE f.signal,
                   confidence |-> f.confidence + 25,
                   rationale |-> Append(f.rationale, 7)]
      [] k = 8 -> [signal |-> IF f.signal # "SELL" THEN "SELL" ELSE f.signal,
                   confidence |-> f.confidence + 20,
                   rationale |-> Append(f.rationale, 8)]

\* The k-th `if` statement.
FuseIf(k, st, cRSI, f) == IF Fired(k, st, cRSI) THEN FuseBody(k, f) ELSE f

\* The state after the first k `if` statements of lines 174-218.
RECURSIVE FuseAfter(_, _, _)
FuseAfter(k, st, cRSI) ==
    IF k = 0 THEN FuseStart
    ELSE FuseIf(k, st, cRSI, FuseAfter(k - 1, st, cRSI))

\* signal, confidence, rationale at line 219, after all eight `if`s.
Fuse(st, cRSI) == FuseAfter(8, st, cRSI)

\* ------------------------------------------------------------------------
\* Additional confirmations (lines 220-245)
\* ------------------------------------------------------------------------

\* current['Volume'] > hist['Volume'].rolling(window=20).mean().iloc[-1] * 1.5
StrongVolume(volume, volAvg) == 2 * volume > 3 * volAvg

\* Confirmations without the trend test of SMA20 against SMA50: what C16's
\* amended statement must notice.
ConfirmationsNoTrend(signal, cClose, cSMA20, cSMA50, volume, volAvg) ==
    IF signal = "BUY"
    THEN (IF Gt(cClose, cSMA20) THEN 10 ELSE 0)
       + (IF 2 * volume > 3 * volAvg THEN 15 ELSE 0)
    ELSE IF signal = "SELL"
    THEN (IF Lt(cClose, cSMA20) THEN 10 ELSE 0)
       + (IF 2 * volume > 3 * volAvg THEN 15 ELSE 0)
    ELSE 0

\* Confirmations whose volume test also passes at exactly 1.5 times the
\* average: what C17's amended statement must notice.
ConfirmationsAtLeast(signal, cClose, cSMA20, cSMA50, volume, volAvg) ==
    IF signal = "BUY"
    THEN (IF Gt(cClose, cSMA20) THEN 10 ELSE 0)
       + (IF Gt(cSMA20, cSMA50) THEN 10 ELSE 0)
       + (IF 2 * volume >= 3 * volAvg THEN 15 ELSE 0)
    ELSE IF signal = "SELL"
    THEN (IF Lt(cClose, cSMA20) THEN 10 ELSE 0)
       + (IF Lt(cSMA20, cSMA50) THEN 10 ELSE 0)
       + (IF 2 * volume >= 3 * volAvg THEN 15 ELSE 0)
    ELSE 0

\* The confidence the confirmations add for `signal`.
Confirmations(signal, cClose, cSMA20, cSMA50, volume, volAvg) ==
    IF signal = "BUY"
    THEN (IF Gt(cClose, cSMA20) THEN 10 ELSE 0)
       + (IF Gt(cSMA20, cSMA50) THEN 10 ELSE 0)
       + (IF StrongVolume(volume, volAvg) THEN 15 ELSE 0)
    ELSE IF signal = "SELL"
    THEN (IF Lt(cClose, cSMA20) THEN 10 ELSE 0)
       + (IF Lt(cSMA20, cSMA50) THEN 10 ELSE 0)
       + (IF StrongVolume(volume, volAvg) THEN 15 ELSE 0)
    ELSE 0

\* ------------------------------------------------------------------------
\* Threshold gate, target, stop and risk/reward (lines 137-142, 247-300)
\* ------------------------------------------------------------------------

\* info.get('currentPrice', current['Close']) with the fallback of lines
\* 141-142: a missing, None, zero or NaN quote (NaN or 0 here) gives the close.
CurrentPrice(infoPrice, cClose) ==
    IF infoPrice = NaN \/ infoPrice = 0 THEN cClose ELSE infoPrice

\* round(reward / risk, 1), in tenths, for risk > 0.
RoundTenths(reward, risk) == (20 * reward + risk) \div (2 * risk)

\* target_price and stop_loss.  avg_atr = atr.mean() / current_price, and
\* price * (1 + k * avg_atr) is price + k * atr.mean() in real arithmetic.
\* A target one ATR away, as far as the stop: what C21 must notice.
TargetPriceOneATR(signal, price, atrMean) ==
    IF signal = "BUY" THEN price + atrMean ELSE price - atrMean

TargetPrice(signal, price, atrMean) ==
    IF signal = "BUY" THEN price + 2 * atrMean ELSE price - 2 * atrMean

\* A stop below the price for either direction: what C18 must notice.
StopLossAlwaysBelow(signal, price, atrMean) == price - atrMean

StopLoss(signal, price, atrMean) ==
    IF signal = "BUY" THEN price - atrMean ELSE price + atrMean

\* risk and reward of lines 265-270.
Risk(signal, price, stop) ==
    IF signal = "BUY" THEN price - stop ELSE stop - price

Reward(signal, price, target) ==
    IF signal = "BUY" THEN target - price ELSE price - target

\* risk_reward, line 272, in tenths.
RiskReward(signal, price, atrMean) ==
    LET target == TargetPrice(signal, price, atrMean)
        stop == StopLoss(signal, price, atrMean)
        risk == Risk(signal, price, stop)
        reward == Reward(signal, price, target)
    IN IF risk > 0 THEN RoundTenths(reward, risk) ELSE 0

\* The gate with a threshold of 40: what C1 must notice.
ConfidenceGateAt40(signal, confidence) == signal # None /\ confidence >= 40

\* The confidence gate of line 248.
ConfidenceGate(signal, confidence) == signal # None /\ confidence >= 60

\* The risk/reward gate of line 275 (1.5, in tenths).
RiskRewardGate(rr) == rr >= 15

\* What lines 247-300 append for one symbol: <<>> or one opportunity.
Build(symbol, signal, confidence, price, atrMean) ==
    IF ~ConfidenceGate(signal, confidence) THEN <<>>
    ELSE LET rr == RiskReward(signal, price, atrMean)
         IN IF ~RiskRewardGate(rr) THEN <<>>
            ELSE << [symbol |-> symbol, signal |-> signal,
                     confidence |-> confidence, risk_reward |-> rr,
                     price |-> price,
                     target_price |-> TargetPrice(signal, price, atrMean),
                     stop_loss |-> StopLoss(signal, price, atrMean)] >>

\* ------------------------------------------------------------------------
\* The data provider's answers for one symbol
\* ------------------------------------------------------------------------

\* A quiet market: 60 rows, nothing crosses, RSI 50, volume at its average.
\* hist/info say whether stock.history() / stock.info raise; n is len(hist).
\* The r-fields are the window means where the window is full; p is the
\* previous row (iloc[-2]) and c the current one (iloc[-1]).
Flat ==
    [hist |-> "ok", n |-> 60, info |-> "ok", infoPrice |-> NaN,
     p20 |-> 10, p50 |-> 10, p200 |-> 10, c20 |-> 10, c50 |-> 10, c200 |-> 10,
     pGain |-> 1, pLoss |-> 1, cGain |-> 1, cLoss |-> 1,
     pMACD |-> 0, pSignal |-> 0, cMACD |-> 0, cSignal |-> 0,
     pStd |-> 1, cStd |-> 1, pClose |-> 10, cClose |-> 10,
     volume |-> 2, volAvg |-> 2, atrMean |-> 2]

\* SMA20 crosses above SMA50, the close is above SMA20, the volume is twice
\* its average: 30 + 10 + 10 + 15.
Golden65 ==
    [Flat EXCEPT !.p50 = 11, !.c20 = 11, !.cClose = 12, !.volume = 4]

\* The same with the MACD crossing above its signal line: 90.
Strong90 == [Golden65 EXCEPT !.pMACD = -1, !.cMACD = 1]

\* The golden cross with no volume and the close at SMA20: 30 + 10.
Weak40 == [Flat EXCEPT !.p50 = 11, !.c20 = 11, !.cClose = 11]

\* RSI 80 and the MACD crossing below its signal line, the close below
\* SMA20 and a strong volume: 25 + 25 + 10 + 15.
Sell75 ==
    [Flat EXCEPT !.cGain = 4, !.pMACD = 1, !.cMACD = -1, !.cClose = 9,
                 !.volume = 4, !.infoPrice = 9]

\* Golden65 on a series whose highs equal its lows: the risk is 0.
NoRange65 == [Golden65 EXCEPT !.atrMean = 0]

\* The answers by name.
Quote(tag) ==
    CASE tag = "flat" -> Flat
      [] tag = "golden65" -> Golden65
      [] tag = "strong90" -> Strong90
      [] tag = "weak40" -> Weak40
      [] tag = "sell75" -> Sell75
      [] tag = "norange65" -> NoRange65
      [] tag = "raise" -> [Flat EXCEPT !.hist = "raise"]
      [] tag = "short" -> [Flat EXCEPT !.n = 29]
      [] tag = "noinfo" -> [Golden65 EXCEPT !.info = "raise"]

\* ------------------------------------------------------------------------
\* The analysis of one symbol: the body of the loop, lines 96-304
\* ------------------------------------------------------------------------

\* The strategy flags of lines 145-166 for the answer q.
Strategies(q) ==
    LET p20 == SMA20(q.p20, q.n - 1)
        c20 == SMA20(q.c20, q.n)
        p50 == SMA50(q.p50, q.n - 1)
        c50 == SMA50(q.c50, q.n)
        p200 == SMA200(q.p200, q.n - 1)
        c200 == SMA200(q.c200, q.n)
        pRSI == RSI(q.pGain, q.pLoss)
        cRSI == RSI(q.cGain, q.cLoss)
        pLower == BB_lower(p20, Rolling(q.pStd, q.n - 1, 20))
        cLower == BB_lower(c20, Rolling(q.cStd, q.n, 20))
        cUpper == BB_upper(c20, Rolling(q.cStd, q.n, 20))
    IN [golden_cross |-> golden_cross(p20, p50, c20, c50),
        rsi_bounce |-> rsi_bounce(pRSI, cRSI),
        macd_cross |-> macd_cross(q.pMACD, q.pSignal, q.cMACD, q.cSignal),
        bb_bounce |-> bb_bounce(q.pClose, pLower, q.cClose, cLower),
        death_cross |-> death_cross(p50, p200, c50, c200),
        rsi_overbought |-> rsi_overbought(cRSI),
        macd_cross_down |->
            macd_cross_down(q.pMACD, q.pSignal, q.cMACD, q.cSignal),
        bb_breakout |-> bb_breakout(q.cClose, cUpper)]

\* Lines 168-300 for a series that was fetched and is long enough.
Evaluate(symbol, q) ==
    LET f == Fuse(Strategies(q), RSI(q.cGain, q.cLoss))
        confidence ==
            f.confidence
            + Confirmations(f.signal, q.cClose, SMA20(q.c20, q.n),
                            SMA50(q.c50, q.n), q.volume, q.volAvg)
    IN Build(symbol, f.signal, confidence,
             CurrentPrice(q.infoPrice, q.cClose), q.atrMean)

\* The symbol's pass through the loop body raises, or hits the `continue`
\* of line 106: stock.history() raises, len(hist) < 30, stock.info raises.
Failing(q) == q.hist = "raise" \/ q.n < 30 \/ q.info = "raise"

\* What one pass through the loop body appends to `opportunities`.
Analyze(symbol, q) == IF Failing(q) THEN <<>> ELSE Evaluate(symbol, q)

\* ------------------------------------------------------------------------
\* Bounds and identities
\* ------------------------------------------------------------------------

\* The length of the stand-in for the 48-symbol DEFAULT_SYMBOLS.
NumDefault == 2

\* The number of symbols outside DEFAULT_SYMBOLS a watchlist can draw on.
NumExtra == 10

\* The number of chats (a private chat's id is its user's id).
NumUsers == 2

\* user_id=None
NoUser == 0

Users == 1 .. NumUsers

\* Symbols are numbered; the first NumDefault are the default ones.
Symbols == 1 .. (NumDefault + NumExtra)

DEFAULT_SYMBOLS == [i \in 1 .. NumDefault |-> i]

\* The threads that run handlers: the job queue's (and, before polling
\* starts, the main thread's startup scan) and the dispatcher's.
Threads == {"job", "disp"}

\* ------------------------------------------------------------------------
\* State
\* ------------------------------------------------------------------------

VARIABLES
    subscribers,            \* the set `subscribers`
    user_watchlists,        \* the dict user_id -> list of symbols
    user_preferences,       \* the dict user_id -> preference dict
    current_opportunities,  \* the global list
    polling,                \* updater.start_polling() was reached
    frame,                  \* per thread: the running handler's locals
    market,                 \* the provider's answer per symbol (a tag)
    seen,                   \* the list details_command last read at line 488
    analysis,               \* the locals of one pass of the loop body
    reply                   \* the last answer of /add, its button, or /remove

vars ==
    <<subscribers, user_watchlists, user_preferences, current_opportunities,
      polling, frame, market, seen, analysis, reply>>

\* ------------------------------------------------------------------------
\* scan_for_opportunities: the universe (lines 77-89)
\* ------------------------------------------------------------------------

InSeq(x, seq) == \E i \in 1 .. Len(seq) : seq[i] = x

\* The loop of lines 87-89 over the first k default symbols.
RECURSIVE AddDefaults(_, _)
AddDefaults(symbols, k) ==
    IF k = 0 THEN symbols
    ELSE LET sofar == AddDefaults(symbols, k - 1)
         IN IF InSeq(DEFAULT_SYMBOLS[k], sofar) THEN sofar
            ELSE Append(sofar, DEFAULT_SYMBOLS[k])

\* `symbols` after line 82.
WatchlistPart(user_id, watchlists) ==
    IF user_id # NoUser /\ user_id \in DOMAIN watchlists
       /\ watchlists[user_id] # <<>>
    THEN watchlists[user_id]
    ELSE <<>>

\* A universe that takes the default symbols in whatever the length of the
\* watchlist: what C7's amended statement must notice.
UniverseAlwaysDefaults(user_id, watchlists) ==
    AddDefaults(WatchlistPart(user_id, watchlists), Len(DEFAULT_SYMBOLS))

\* `symbols` at line 91.
Universe(user_id, watchlists) ==
    LET symbols == WatchlistPart(user_id, watchlists)
    IN IF Len(symbols) < 50 \/ user_id = NoUser
       THEN AddDefaults(symbols, Len(DEFAULT_SYMBOLS))
       ELSE symbols

\* ------------------------------------------------------------------------
\* scan_for_opportunities: sort and truncation (lines 306-310)
\* ------------------------------------------------------------------------

\* (a.confidence, a.risk_reward) >= (b.confidence, b.risk_reward) as tuples.
KeyGe(a, b) ==
    \/ a.confidence > b.confidence
    \/ a.confidence = b.confidence /\ a.risk_reward >= b.risk_reward

\* An insertion that puts x before the entries of equal key, as sorting in
\* ascending order and reversing would: what C2 must notice.
InsertBeforeEqual(sorted, x) ==
    SelectSeq(sorted, LAMBDA e : KeyGe(e, x) /\ ~KeyGe(x, e)) \o <<x>>
    \o SelectSeq(sorted, LAMBDA e : KeyGe(x, e))

\* x put into a list sorted in descending key order, after the entries whose
\* key is not smaller: list.sort(reverse=True) keeps equal keys in order.
Insert(sorted, x) ==
    SelectSeq(sorted, LAMBDA e : KeyGe(e, x)) \o <<x>>
    \o SelectSeq(sorted, LAMBDA e : ~KeyGe(e, x))

\* opportunities.sort(key=..., reverse=True)
RECURSIVE Sort(_)
Sort(seq) ==
    IF seq = <<>> THEN <<>>
    ELSE Insert(Sort(SubSeq(seq, 1, Len(seq) - 1)), seq[Len(seq)])

\* seq[:k]
Take(seq, k) == SubSeq(seq, 1, IF Len(seq) < k THEN Len(seq) ELSE k)

\* Truncating before sorting: what C3 must notice.
TruncateThenSort(opportunities) == Sort(Take(opportunities, 10))

\* The value scan_for_opportunities returns for the collected list.
SortTruncate(opportunities) == Take(Sort(opportunities), 10)

\* The locals of a pass of the loop body that has not fetched anything yet:
\* the strategy flags, the values of the two rows that later lines read
\* (NaN once no later line reads them), and signal, confidence, rationale.
NoAnalysis ==
    [pc |-> "fetch", n |-> 0, pSMA20 |-> NaN, cSMA20 |-> NaN, cSMA50 |-> NaN,
     pSMA50 |-> NaN, pSMA200 |-> NaN, cSMA200 |-> NaN,
     gain |-> 0, loss |-> 0, pRSI |-> NaN,
     volume |-> 0, volAvg |-> 0, price |-> NaN, atrMean |-> 0,
     cRSI |-> NaN, cClose |-> NaN, st |-> NoStrategy, signal |-> None,
     primary |-> 0, confidence |-> 0, rationale |-> <<>>, out |-> <<>>]

\* ------------------------------------------------------------------------
\* Handler frames
\* ------------------------------------------------------------------------

\* A thread with no handler running.
IdleFrame ==
    [op |-> "idle", pc |-> "idle", caller |-> NoUser, arg |-> 0,
     user_id |-> NoUser, symbols |-> <<>>, idx |-> 0, opportunities |-> <<>>,
     ret |-> <<>>, todo |-> {}, used |-> 0, sent |-> {}, error |-> FALSE]

\* The handler `op` of `caller` entering scan_for_opportunities(user_id):
\* lines 77-93.
ScanEntry(f, user_id, watchlists) ==
    [f EXCEPT !.pc = "scan", !.user_id = user_id,
              !.symbols = Universe(user_id, watchlists),
              !.idx = 0, !.opportunities = <<>>, !.ret = <<>>]

\* A handler that starts with update_opportunities(user_id).
HandlerEntry(op, caller, arg, user_id, watchlists) ==
    ScanEntry([IdleFrame EXCEPT !.op = op, !.caller = caller, !.arg = arg],
              user_id, watchlists)

\* ------------------------------------------------------------------------
\* The broadcast's choice for one subscriber (lines 971-996)
\* ------------------------------------------------------------------------

\* min_confidence of lines 974-978.
MinConfidence(user_id, preferences) ==
    IF user_id \in DOMAIN preferences
    THEN preferences[user_id].min_confidence
    ELSE 60

\* The `continue` of line 977.
AlertsDisabled(user_id, preferences) ==
    user_id \in DOMAIN preferences /\ ~preferences[user_id].daily_alerts

\* user_opps of line 981.
UserOpps(opportunities, min_confidence) ==
    SelectSeq(opportunities, LAMBDA op : op.confidence >= min_confidence)

\* A broadcast that also drops the opportunities whose risk/reward is below
\* the subscriber's min_risk_reward: what C9 must notice.
DeliverWithRiskReward(subscriber, opportunities, preferences) ==
    IF subscriber \in DOMAIN preferences
       /\ ~preferences[subscriber].daily_alerts
    THEN {}
    ELSE LET min_confidence == IF subscriber \in DOMAIN preferences
                               THEN preferences[subscriber].min_confidence
                               ELSE 60
             min_rr == IF subscriber \in DOMAIN preferences
                       THEN preferences[subscriber].min_risk_reward
                       ELSE 15
             user_opps ==
                 SelectSeq(opportunities,
                           LAMBDA op : /\ op.confidence >= min_confidence
                                       /\ op.risk_reward >= min_rr)
         IN IF user_opps = <<>> THEN {}
            ELSE {[chat |-> subscriber, opp |-> user_opps[1],
                   more |-> Len(user_opps) > 1]}

\* The alerts lines 971-996 send to `subscriber`: none, or the first of
\* user_opps (`more` is the pointer to /watchlist of lines 991-996).
Deliver(subscriber, opportunities, preferences) ==
    IF AlertsDisabled(subscriber, preferences) THEN {}
    ELSE LET user_opps ==
                 UserOpps(opportunities,
                          MinConfidence(subscriber, preferences))
         IN IF user_opps = <<>> THEN {}
            ELSE {[chat |-> subscriber, opp |-> user_opps[1],
                   more |-> Len(user_opps) > 1]}

\* ------------------------------------------------------------------------
\* What a handler does once update_opportunities has returned `opps`
\* ------------------------------------------------------------------------

\* The opportunities whose symbol is `symbol` (lines 485 and 488).
Matching(opps, symbol) == SelectSeq(opps, LAMBDA op : op.symbol = symbol)

\* The one alert send_opportunity_alert(context, opp, chat_id) sends.
Alert(chat, opp) == [chat |-> chat, opp |-> opp, more |-> FALSE]

\* A refresh that goes on to the subscribers like a broadcast pass: what C19
\* must notice.
NotifiesAlsoRefresh(op) == op \in {"broadcast", "refresh"}

\* The handlers that go on to notify the subscribers after their scan: of
\* the three callers of update_opportunities() in schedule_scans, only
\* broadcast_opportunities.
Notifies(op) == op = "broadcast"

\* The frame after the handler's remaining lines, given the list `opps` its
\* call of update_opportunities returned; `scoped` says that the call was
\* update_opportunities(user_id) with a user.
After(f, opps, scoped) ==
    LET g == [f EXCEPT !.ret = opps, !.pc = "done"]
    IN CASE Notifies(f.op) ->
              \* lines 969-970: the iterator over `subscribers` is created
              IF opps # <<>> /\ subscribers # {}
              THEN [g EXCEPT !.pc = "loop", !.todo = subscribers,
                             !.used = Cardinality(subscribers)]
              ELSE g
         [] f.op = "scan_command" ->
              \* lines 423-431
              IF opps # <<>>
              THEN [g EXCEPT !.sent = {Alert(f.caller, opps[1])}]
              ELSE g
         [] f.op = "watchlist_command" ->
              \* lines 441-442: nothing for the user, so the global scan
              IF opps = <<>> /\ scoped
              THEN ScanEntry(g, NoUser, user_watchlists)
              ELSE g
         [] f.op = "details_command" ->
              \* lines 485-492
              LET mine == Matching(opps, f.arg)
                  found == IF mine # <<>> THEN mine
                           ELSE Matching(current_opportunities, f.arg)
              IN IF found # <<>>
                 THEN [g EXCEPT !.sent = {Alert(f.caller, found[1])}]
                 ELSE g
         [] OTHER -> g

\* Whether those remaining lines read the global list at line 488.
ReadsCache(f, opps) ==
    f.op = "details_command" /\ Matching(opps, f.arg) = <<>>

\* ------------------------------------------------------------------------
\* scan_for_opportunities and update_opportunities, step by step
\* ------------------------------------------------------------------------

\* A failure that ends the loop: what C4 must notice.
NextIndexAbort(idx, total, q) == IF Failing(q) THEN total ELSE idx + 1

\* The number of symbols handled once the loop body ended for the symbol at
\* idx + 1: an exception is caught inside the loop (lines 302-304) and a
\* short history hits `continue` (line 106), so the loop always goes on.
NextIndex(idx, total, q) == idx + 1

\* A global scan that appends what it finds to the global list as it goes:
\* what C10 must notice.
CacheAppendDuringScan(cache, f, found) ==
    IF f.user_id = NoUser THEN cache \o found ELSE cache

\* The global list after one pass of the loop body of the scan in frame f,
\* which found `found`: the scan collects into its local list (lines 91,
\* 281), the global one is not touched.
CacheDuringScan(cache, f, found) == cache

\* The list update_opportunities() binds to the global name at line 321.
Published(opportunities) == SortTruncate(opportunities)

\* update_opportunities() binding the global name for every caller: what C23
\* must notice.
ReboundAlways(cache, user_id, opportunities) == Published(opportunities)

\* What the global name holds when update_opportunities(user_id) returns
\* (lines 316-322): with a user the scan's list is returned and the name is
\* left alone, without one the name is bound to the scan's list.
Rebound(cache, user_id, opportunities) ==
    IF user_id # NoUser THEN cache ELSE Published(opportunities)

\* One pass of the loop of lines 95-304 in thread t, the provider answering
\* with q for the symbol.
ScanStep(t, q) ==
    LET f == frame[t]
        found == Analyze(f.symbols[f.idx + 1], q)
    IN /\ f.pc = "scan"
       /\ f.idx < Len(f.symbols)
       /\ frame' = [frame EXCEPT
                      ![t].opportunities = f.opportunities \o found,
                      ![t].idx = NextIndex(f.idx, Len(f.symbols), q)]
       /\ current_opportunities' =
              CacheDuringScan(current_opportunities, f, found)
       /\ UNCHANGED <<subscribers, user_watchlists, user_preferences,
                      polling, market, seen, analysis, reply>>

\* The loop is over: lines 306-310, then update_opportunities' branch.  With
\* a user the list is returned to the handler (line 318), which goes on;
\* without one it is bound to the global name (line 321).
ScanFinish(t) ==
    LET f == frame[t]
        result == SortTruncate(f.opportunities)
    IN /\ f.pc = "scan"
       /\ f.idx >= Len(f.symbols)
       /\ IF f.user_id # NoUser
          THEN /\ frame' = [frame EXCEPT ![t] = After(f, result, TRUE)]
               /\ seen' = IF ReadsCache(f, result)
                          THEN current_opportunities ELSE seen
          ELSE /\ frame' = [frame EXCEPT ![t].ret = result,
                                         ![t].pc = "return"]
               /\ UNCHANGED seen
       /\ current_opportunities' =
              Rebound(current_opportunities, f.user_id, f.opportunities)
       /\ UNCHANGED <<subscribers, user_watchlists, user_preferences,
                      polling, market, analysis, reply>>

\* Line 322: update_opportunities() returns what the global name holds now,
\* and the handler goes on with it.
UpdateReturn(t) ==
    LET f == frame[t]
    IN /\ f.pc = "return"
       /\ frame' = [frame EXCEPT ![t] = After(f, current_opportunities, FALSE)]
       /\ UNCHANGED <<subscribers, user_watchlists, user_preferences,
                      current_opportunities, polling, market, seen, analysis, reply>>

\* One turn of `for subscriber in subscribers` (lines 970-996).  The set
\* iterator raises RuntimeError when the set's size differs from the size at
\* its creation; otherwise it yields an element not yet yielded, in no
\* particular order, or ends the loop.
BroadcastNext(t) ==
    LET f == frame[t]
    IN /\ f.pc = "loop"
       /\ IF Cardinality(subscribers) # f.used
          THEN frame' = [frame EXCEPT ![t].pc = "done", ![t].error = TRUE]
          ELSE IF f.todo = {}
          THEN frame' = [frame EXCEPT ![t].pc = "done"]
          ELSE \E subscriber \in f.todo :
                 frame' = [frame EXCEPT
                     ![t].todo = f.todo \ {subscriber},
                     ![t].sent = f.sent \cup
                         Deliver(subscriber, f.ret, user_preferences)]
       /\ UNCHANGED <<subscribers, user_watchlists, user_preferences,
                      current_opportunities, polling, market, seen, analysis, reply>>

\* The handler returns.  After the startup scan of schedule_scans, main()
\* goes on to updater.start_polling() (lines 1066-1072).
HandlerEnd(t) ==
    /\ frame[t].pc = "done"
    /\ frame' = [frame EXCEPT ![t] = IdleFrame]
    /\ polling' = (polling \/ frame[t].op = "startup")
    /\ UNCHANGED <<subscribers, user_watchlists, user_preferences,
                   current_opportunities, market, seen, analysis, reply>>

\* ------------------------------------------------------------------------
\* Scheduled jobs (lines 998-1030)
\* ------------------------------------------------------------------------

\* A job of the queue starts: "refresh" is update_opportunities(),
\* "broadcast" is broadcast_opportunities.
Job(op) ==
    /\ polling
    /\ frame["job"].pc = "idle"
    /\ frame' = [frame EXCEPT
                   !["job"] = HandlerEntry(op, NoUser, 0, NoUser,
                                           user_watchlists)]
    /\ UNCHANGED <<subscribers, user_watchlists, user_preferences,
                   current_opportunities, polling, market, seen, analysis, reply>>

refresh_opportunities == Job("refresh")

broadcast_opportunities == Job("broadcast")

\* ------------------------------------------------------------------------
\* Commands that scan (lines 414-564)
\* ------------------------------------------------------------------------

\* The dispatcher takes the next update.
Dispatch == polling /\ frame["disp"].pc = "idle"

Command(op, user_id, arg) ==
    /\ Dispatch
    /\ frame' = [frame EXCEPT
                   !["disp"] = HandlerEntry(op, user_id, arg, user_id,
                                            user_watchlists)]
    /\ UNCHANGED <<subscribers, user_watchlists, user_preferences,
                   current_opportunities, polling, market, seen, analysis, reply>>

scan_command(user_id) == Command("scan_command", user_id, 0)

watchlist_command(user_id) == Command("watchlist_command", user_id, 0)

details_command(user_id, symbol) ==
    Command("details_command", user_id, symbol)

\* ------------------------------------------------------------------------
\* Commands on the subscriber state (lines 375-379, 566-607, 732-960)
\* ------------------------------------------------------------------------

\* {}
EmptyDict == [k \in {} |-> {}]

\* d[k] = v
Put(d, k, v) == [x \in DOMAIN d \cup {k} |-> IF x = k THEN v ELSE d[x]]

\* /start: subscribers.add(chat_id)
start(chat_id) ==
    /\ Dispatch
    /\ subscribers' = subscribers \cup {chat_id}
    /\ UNCHANGED <<user_watchlists, user_preferences, current_opportunities,
                   polling, frame, market, seen, analysis, reply>>

\* No answer yet.
NoReply == [to |-> NoUser, symbol |-> 0, text |-> "none"]

\* The answer of /add and of the button (lines 586-592, 807-813): "Could not
\* find symbol ..." when ticker.info raises, else "Added ..." or "... is
\* already in your watchlist".
AddReply(watchlists, user_id, symbol, resolves) ==
    [to |-> user_id, symbol |-> symbol,
     text |-> IF ~resolves THEN "could_not_find"
              ELSE IF user_id \in DOMAIN watchlists
                      /\ InSeq(symbol, watchlists[user_id])
              THEN "already" ELSE "added"]

\* The answer of /remove (lines 603-607).
RemoveReply(watchlists, user_id, symbol) ==
    [to |-> user_id, symbol |-> symbol,
     text |-> IF user_id \in DOMAIN watchlists
                 /\ InSeq(symbol, watchlists[user_id])
              THEN "removed" ELSE "not_in_watchlist"]

\* An add that appends without looking for the symbol in the list: what C12
\* must notice.
AddSymbolUnchecked(watchlists, user_id, symbol, resolves) ==
    LET created == IF user_id \in DOMAIN watchlists THEN watchlists
                   ELSE Put(watchlists, user_id, <<>>)
    IN IF resolves
       THEN Put(created, user_id, Append(created[user_id], symbol))
       ELSE created

\* Lines 575-592 and 797-813: the list is created if missing; then, unless
\* ticker.info raises (`resolves` false), the symbol is appended if new.
AddSymbol(watchlists, user_id, symbol, resolves) ==
    LET created == IF user_id \in DOMAIN watchlists THEN watchlists
                   ELSE Put(watchlists, user_id, <<>>)
    IN IF resolves /\ ~InSeq(symbol, created[user_id])
       THEN Put(created, user_id, Append(created[user_id], symbol))
       ELSE created

\* /add SYMBOL
add_to_watchlist_command(user_id, symbol, resolves) ==
    /\ Dispatch
    /\ user_watchlists' = AddSymbol(user_watchlists, user_id, symbol, resolves)
    /\ reply' = AddReply(user_watchlists, user_id, symbol, resolves)
    /\ UNCHANGED <<subscribers, user_preferences, current_opportunities,
                   polling, frame, market, seen, analysis>>

\* The "Add to Watchlist" button: button_callback with data "add_SYMBOL".
button_add(user_id, symbol, resolves) ==
    /\ Dispatch
    /\ user_watchlists' = AddSymbol(user_watchlists, user_id, symbol, resolves)
    /\ reply' = AddReply(user_watchlists, user_id, symbol, resolves)
    /\ UNCHANGED <<subscribers, user_preferences, current_opportunities,
                   polling, frame, market, seen, analysis>>

\* list.remove(symbol): the first occurrence goes.
RECURSIVE Remove(_, _)
Remove(seq, x) ==
    IF seq = <<>> THEN <<>>
    ELSE IF Head(seq) = x THEN Tail(seq)
    ELSE <<Head(seq)>> \o Remove(Tail(seq), x)

\* /remove SYMBOL (lines 603-607)
RemoveSymbol(watchlists, user_id, symbol) ==
    IF user_id \in DOMAIN watchlists /\ InSeq(symbol, watchlists[user_id])
    THEN Put(watchlists, user_id, Remove(watchlists[user_id], symbol))
    ELSE watchlists

remove_from_watchlist_command(user_id, symbol) ==
    /\ Dispatch
    /\ user_watchlists' = RemoveSymbol(user_watchlists, user_id, symbol)
    /\ reply' = RemoveReply(user_watchlists, user_id, symbol)
    /\ UNCHANGED <<subscribers, user_preferences, current_opportunities,
                   polling, frame, market, seen, analysis>>

\* The defaults of lines 738-742 (min_risk_reward in tenths).
DefaultPreferences ==
    [daily_alerts |-> TRUE, min_confidence |-> 60, min_risk_reward |-> 15]

\* "Initialize user preferences if not exist"
WithPreferences(preferences, user_id) ==
    IF user_id \in DOMAIN preferences THEN preferences
    ELSE Put(preferences, user_id, DefaultPreferences)

\* /settings
settings_command(user_id) ==
    /\ Dispatch
    /\ user_preferences' = WithPreferences(user_preferences, user_id)
    /\ UNCHANGED <<subscribers, user_watchlists, current_opportunities,
                   polling, frame, market, seen, analysis, reply>>

\* The settings buttons: button_callback with data "toggle_alerts",
\* "conf_N" and "rr_X" (lines 916-960).
ToggleAlerts(preferences, user_id) ==
    LET p == WithPreferences(preferences, user_id)
    IN Put(p, user_id,
           [p[user_id] EXCEPT !.daily_alerts = ~p[user_id].daily_alerts])

\* A confidence button that stores a fresh record with the new value: the
\* other keys fall back to their defaults.  What C13 must notice.
SetConfidenceFresh(preferences, user_id, conf_value) ==
    Put(preferences, user_id,
        [daily_alerts |-> TRUE, min_confidence |-> conf_value,
         min_risk_reward |-> 15])

SetConfidence(preferences, user_id, conf_value) ==
    LET p == WithPreferences(preferences, user_id)
    IN Put(p, user_id, [p[user_id] EXCEPT !.min_confidence = conf_value])

SetRiskReward(preferences, user_id, rr_value) ==
    LET p == WithPreferences(preferences, user_id)
    IN Put(p, user_id, [p[user_id] EXCEPT !.min_risk_reward = rr_value])

button_toggle_alerts(user_id) ==
    /\ Dispatch
    /\ user_preferences' = ToggleAlerts(user_preferences, user_id)
    /\ UNCHANGED <<subscribers, user_watchlists, current_opportunities,
                   polling, frame, market, seen, analysis, reply>>

button_conf(user_id, conf_value) ==
    /\ Dispatch
    /\ user_preferences' = SetConfidence(user_preferences, user_id, conf_value)
    /\ UNCHANGED <<subscribers, user_watchlists, current_opportunities,
                   polling, frame, market, seen, analysis, reply>>

button_rr(user_id, rr_value) ==
    /\ Dispatch
    /\ user_preferences' = SetRiskReward(user_preferences, user_id, rr_value)
    /\ UNCHANGED <<subscribers, user_watchlists, current_opportunities,
                   polling, frame, market, seen, analysis, reply>>

\* The values the settings keyboard offers (lines 762-769).
ConfButtons == {60, 70, 80}
RiskRewardButtons == {15, 20, 25}

\* ------------------------------------------------------------------------
\* The bot: the startup scan, then jobs and commands
\* ------------------------------------------------------------------------

\* All the answers of the provider the model knows.
Tags ==
    {"flat", "golden65", "strong90", "weak40", "sell75", "norange65",
     "raise", "short", "noinfo"}

\* The symbols users name in commands: a default one and another one.
CommandSymbols == {1, NumDefault + 1}

\* The state when main() calls schedule_scans: the module's globals are
\* empty and the startup scan (line 1003) begins.
Init ==
    /\ subscribers = {}
    /\ user_watchlists = EmptyDict
    /\ user_preferences = EmptyDict
    /\ current_opportunities = <<>>
    /\ polling = FALSE
    /\ frame = [t \in Threads |->
                  IF t = "job"
                  THEN HandlerEntry("startup", NoUser, 0, NoUser, EmptyDict)
                  ELSE IdleFrame]
    /\ market = [s \in Symbols |-> "flat"]
    /\ seen = <<>>
    /\ analysis = NoAnalysis
    /\ reply = NoReply

\* The steps of a running scan, the provider answering from `feed`.
RunScan(feed) ==
    \/ \E t \in Threads, q \in feed : ScanStep(t, Quote(q))
    \/ \E t \in Threads : ScanFinish(t)
    \/ \E t \in Threads : UpdateReturn(t)
    \/ \E t \in Threads : HandlerEnd(t)

\* The commands that change the subscriber state.
Subscribe == \E u \in Users : start(u)

Watch ==
    \/ \E u \in Users, s \in CommandSymbols, r \in BOOLEAN :
           add_to_watchlist_command(u, s, r)
    \/ \E u \in Users, s \in CommandSymbols, r \in BOOLEAN :
           button_add(u, s, r)
    \/ \E u \in Users, s \in CommandSymbols :
           remove_from_watchlist_command(u, s)

Settings ==
    \/ \E u \in Users : settings_command(u)
    \/ \E u \in Users : button_toggle_alerts(u)
    \/ \E u \in Users, v \in ConfButtons : button_conf(u, v)
    \/ \E u \in Users, v \in RiskRewardButtons : button_rr(u, v)

\* The commands that scan.
Ask ==
    \/ \E u \in Users : scan_command(u)
    \/ \E u \in Users : watchlist_command(u)
    \/ \E u \in Users, s \in CommandSymbols : details_command(u, s)

\* The whole bot.
Next ==
    \/ RunScan(Tags)
    \/ \E t \in Threads : BroadcastNext(t)
    \/ refresh_opportunities
    \/ broadcast_opportunities
    \/ Ask
    \/ Subscribe
    \/ Watch
    \/ Settings

Spec == Init /\ [][Next]_vars

\* ------------------------------------------------------------------------
\* The bot with users who only subscribe and change their settings
\* ------------------------------------------------------------------------

AlertsFeed == {"golden65", "strong90", "raise"}

NextAlerts ==
    \/ RunScan(AlertsFeed)
    \/ \E t \in Threads : BroadcastNext(t)
    \/ refresh_opportunities
    \/ broadcast_opportunities
    \/ Subscribe
    \/ Settings

SpecAlerts == Init /\ [][NextAlerts]_vars

\* ------------------------------------------------------------------------
\* The bot with users who only ask for opportunities
\* ------------------------------------------------------------------------

CacheFeed == {"golden65", "raise"}

NextCache ==
    \/ RunScan(CacheFeed)
    \/ refresh_opportunities
    \/ Ask

SpecCache == Init /\ [][NextCache]_vars

\* ------------------------------------------------------------------------
\* One market, scanned for users and for the cache
\* ------------------------------------------------------------------------

\* The symbols outside DEFAULT_SYMBOLS, in order.
Pool == [i \in 1 .. NumExtra |-> NumDefault + i]

\* The watchlists of user 1: none yet, empty, all of Pool, and Pool after a
\* default symbol.
ScanWatchlists == {<<>>, Pool, <<1>> \o Pool}

\* The markets: every symbol answers `base`, but for two of them, one among
\* the first default symbol and the first of Pool, the other among the last
\* default symbol and the last of Pool.
ScanMarkets ==
    {[s \in Symbols |-> IF s = i THEN a ELSE IF s = j THEN b ELSE base] :
        i \in {1, NumDefault + 1}, j \in {NumDefault, NumDefault + NumExtra},
        a \in Tags, b \in Tags, base \in {"golden65", "strong90"}}

\* A polling bot at rest: user 1 has filled a watchlist.
InitScan ==
    /\ subscribers = {}
    /\ user_watchlists \in {Put(EmptyDict, 1, w) : w \in ScanWatchlists}
    /\ user_preferences = EmptyDict
    /\ current_opportunities = <<>>
    /\ polling = TRUE
    /\ frame = [t \in Threads |-> IdleFrame]
    /\ market \in ScanMarkets
    /\ seen = <<>>
    /\ analysis = NoAnalysis
    /\ reply = NoReply

\* A pass of the loop against the market.
MarketStep(t) ==
    /\ frame[t].pc = "scan"
    /\ frame[t].idx < Len(frame[t].symbols)
    /\ ScanStep(t, Quote(market[frame[t].symbols[frame[t].idx + 1]]))

NextScan ==
    \/ \E u \in Users : scan_command(u)
    \/ refresh_opportunities
    \/ \E t \in Threads : MarketStep(t)
    \/ \E t \in Threads : ScanFinish(t)
    \/ \E t \in Threads : UpdateReturn(t)
    \/ \E t \in Threads : HandlerEnd(t)

SpecScan == InitScan /\ [][NextScan]_vars

\* ------------------------------------------------------------------------
\* Scans for users with short and with long watchlists
\* ------------------------------------------------------------------------

\* The longest run of non-default symbols in a watchlist.
MaxSegment == 50

\* The symbols NumDefault+1 .. NumDefault+len, in order.
Segment(len) == [i \in 1 .. len |-> NumDefault + i]

\* Watchlists on both sides of the length line 85 tests: a few default
\* symbols in some order, then a run of other symbols (/add keeps a watchlist
\* free of duplicates, lines 576-578 and 800-802).
UniverseWatchlists ==
    {prefix \o Segment(len) :
        prefix \in {<<>>, <<1>>, <<NumDefault>>, <<NumDefault, 1>>},
        len \in {0, 1, MaxSegment - 3, MaxSegment - 2, MaxSegment - 1,
                 MaxSegment}}

\* A polling bot at rest; user 1 has a watchlist, user 2 has none.  The first
\* default symbol shows a golden cross, the other symbols are quiet.
InitUniverse ==
    /\ subscribers = {}
    /\ user_watchlists \in {Put(EmptyDict, 1, w) : w \in UniverseWatchlists}
    /\ user_preferences = EmptyDict
    /\ current_opportunities = <<>>
    /\ polling = TRUE
    /\ frame = [t \in Threads |-> IdleFrame]
    /\ market = [s \in 1 .. (NumDefault + MaxSegment) |->
                    IF s = 1 THEN "golden65" ELSE "flat"]
    /\ seen = <<>>
    /\ analysis = NoAnalysis
    /\ reply = NoReply

NextUniverse ==
    \/ \E t \in Threads : MarketStep(t)
    \/ \E t \in Threads : ScanFinish(t)
    \/ \E t \in Threads : UpdateReturn(t)
    \/ \E t \in Threads : HandlerEnd(t)
    \/ refresh_opportunities
    \/ \E u \in Users : scan_command(u)
    \/ \E u \in Users : watchlist_command(u)

SpecUniverse == InitUniverse /\ [][NextUniverse]_vars

\* ------------------------------------------------------------------------
\* One pass of the loop body, column by column
\* ------------------------------------------------------------------------

\* The provider's numbers one pass can meet.  len(hist) on both sides of
\* every window; averages that cross either way; mean gains and losses giving
\* RSI NaN, 0, 20, 34, 50, 67, 80, 100; closes below, at and above the bands.
HistLengths == {30, 50, 51, 200, 201}
Averages == {10, 11}
Gains == {0, 1, 2, 4}
Losses == {0, 1, 4}
MACDValues == {-1, 0, 1}
SignalValues == {0}
Deviations == {0, 1}
Closes == {8, 9, 10, 12, 14}
Volumes == {2, 3, 4}
VolumeAverages == {2}
InfoPrices == {NaN, 0, 12}
ATRMeans == {0, 2}

InitFusion ==
    /\ subscribers = {}
    /\ user_watchlists = EmptyDict
    /\ user_preferences = EmptyDict
    /\ current_opportunities = <<>>
    /\ polling = FALSE
    /\ frame = [t \in Threads |-> IdleFrame]
    /\ market = [s \in Symbols |-> "flat"]
    /\ seen = <<>>
    /\ analysis = NoAnalysis
    /\ reply = NoReply

Others ==
    <<subscribers, user_watchlists, user_preferences, current_opportunities,
      polling, frame, market, seen, reply>>

\* Lines 98-112 and the strategies 1 and 5: the series has n rows (n >= 30
\* past line 106) and the three moving averages of the last two rows.
ColumnsSMA(n, p20, p50, p200, c20, c50, c200) ==
    /\ analysis.pc = "fetch"
    /\ analysis' =
         [analysis EXCEPT
            !.pc = "rsi", !.n = n,
            !.pSMA20 = SMA20(p20, n - 1),
            !.cSMA20 = SMA20(c20, n),
            !.cSMA50 = SMA50(c50, n),
            !.pSMA50 = SMA50(p50, n - 1),
            !.pSMA200 = SMA200(p200, n - 1),
            !.cSMA200 = SMA200(c200, n),
            !.st.golden_cross =
                golden_cross(SMA20(p20, n - 1), SMA50(p50, n - 1),
                             SMA20(c20, n), SMA50(c50, n)),
            !.st.death_cross =
                death_cross(SMA50(p50, n - 1), SMA200(p200, n - 1),
                            SMA50(c50, n), SMA200(c200, n))]
    /\ UNCHANGED Others

\* Lines 114-119 and the strategies 2 and 6: the 14-row mean gain and mean
\* loss at the last two rows.  The previous row's SMA50 and the SMA200 are
\* not read after the strategies 1 and 5.
ColumnsRSI(pGain, pLoss, cGain, cLoss) ==
    /\ analysis.pc = "rsi"
    /\ analysis' =
         [analysis EXCEPT
            !.pc = "macd",
            !.pSMA50 = NaN, !.pSMA200 = NaN, !.cSMA200 = NaN,
            !.gain = cGain, !.loss = cLoss,
            !.pRSI = RSI(pGain, pLoss),
            !.cRSI = RSI(cGain, cLoss),
            !.st.rsi_bounce = rsi_bounce(RSI(pGain, pLoss), RSI(cGain, cLoss)),
            !.st.rsi_overbought = rsi_overbought(RSI(cGain, cLoss))]
    /\ UNCHANGED Others

\* Lines 121-125 and the strategies 3 and 7.  The mean gain and loss and the
\* previous row's RSI are not read after the strategies 2 and 6.
ColumnsMACD(pMACD, pSignal, cMACD, cSignal) ==
    /\ analysis.pc = "macd"
    /\ analysis' =
         [analysis EXCEPT
            !.pc = "bands",
            !.gain = 0, !.loss = 0, !.pRSI = NaN,
            !.st.macd_cross = macd_cross(pMACD, pSignal, cMACD, cSignal),
            !.st.macd_cross_down =
                macd_cross_down(pMACD, pSignal, cMACD, cSignal)]
    /\ UNCHANGED Others

\* Lines 127-131 and the strategies 4 and 8; BB_middle is the 20-day average.
\* The previous row's average and len(hist) are not read after this.
ColumnsBB(pStd, pClose, cStd, cClose) ==
    /\ analysis.pc = "bands"
    /\ LET pLower == BB_lower(analysis.pSMA20,
                              Rolling(pStd, analysis.n - 1, 20))
           cLower == BB_lower(analysis.cSMA20, Rolling(cStd, analysis.n, 20))
           cUpper == BB_upper(analysis.cSMA20, Rolling(cStd, analysis.n, 20))
       IN analysis' =
            [analysis EXCEPT
               !.pc = "fuse", !.n = 0, !.pSMA20 = NaN,
               !.cClose = cClose,
               !.st.bb_bounce = bb_bounce(pClose, pLower, cClose, cLower),
               !.st.bb_breakout = bb_breakout(cClose, cUpper)]
    /\ UNCHANGED Others

\* Lines 168-218.
FuseStep ==
    /\ analysis.pc = "fuse"
    /\ LET f == Fuse(analysis.st, analysis.cRSI)
       IN analysis' =
            [analysis EXCEPT
               !.pc = "confirm", !.signal = f.signal,
               !.primary = f.confidence, !.confidence = f.confidence,
               !.rationale = f.rationale]
    /\ UNCHANGED Others

\* Lines 220-245.
ConfirmStep(volume, volAvg) ==
    /\ analysis.pc = "confirm"
    /\ analysis' =
         [analysis EXCEPT
            !.pc = "build",
            !.volume = volume, !.volAvg = volAvg,
            !.confidence =
                analysis.confidence
                + Confirmations(analysis.signal, analysis.cClose,
                                analysis.cSMA20, analysis.cSMA50,
                                volume, volAvg)]
    /\ UNCHANGED Others

\* Lines 137-142 and 247-300 (symbol 1).
BuildStep(infoPrice, atrMean) ==
    /\ analysis.pc = "build"
    /\ analysis' =
         [analysis EXCEPT
            !.pc = "done",
            !.price = CurrentPrice(infoPrice, analysis.cClose),
            !.atrMean = atrMean,
            !.out = Build(1, analysis.signal, analysis.confidence,
                          CurrentPrice(infoPrice, analysis.cClose), atrMean)]
    /\ UNCHANGED Others

NextFusion ==
    \/ \E n \in HistLengths, p20, p50, p200, c20, c50, c200 \in Averages :
          ColumnsSMA(n, p20, p50, p200, c20, c50, c200)
    \/ \E pGain, cGain \in Gains, pLoss, cLoss \in Losses :
          ColumnsRSI(pGain, pLoss, cGain, cLoss)
    \/ \E pMACD, cMACD \in MACDValues, pSignal, cSignal \in SignalValues :
          ColumnsMACD(pMACD, pSignal, cMACD, cSignal)
    \/ \E pStd, cStd \in Deviations, pClose, cClose \in Closes :
          ColumnsBB(pStd, pClose, cStd, cClose)
    \/ FuseStep
    \/ \E volume \in Volumes, volAvg \in VolumeAverages :
          ConfirmStep(volume, volAvg)
    \/ \E infoPrice \in InfoPrices, atrMean \in ATRMeans :
          BuildStep(infoPrice, atrMean)

SpecFusion == InitFusion /\ [][NextFusion]_vars

\* ------------------------------------------------------------------------
\* Users who only edit their watchlists
\* ------------------------------------------------------------------------

\* The number of symbols users name in /add and /remove.
NumWatch == 3

WatchSymbols == 1 .. NumWatch

\* The symbols the data provider knows nothing about: the last one.  For such
\* a symbol ticker.info may raise or may return a dict without 'shortName'
\* (the code reads it with the default 'Unknown', lines 583 and 804); for a
\* symbol it knows, ticker.info returns or raises (a network failure).
Unlisted == {NumWatch}

\* A polling bot at rest with nothing stored.
InitWatch ==
    /\ subscribers = {}
    /\ user_watchlists = EmptyDict
    /\ user_preferences = EmptyDict
    /\ current_opportunities = <<>>
    /\ polling = TRUE
    /\ frame = [t \in Threads |-> IdleFrame]
    /\ market = [s \in Symbols |-> "flat"]
    /\ seen = <<>>
    /\ analysis = NoAnalysis
    /\ reply = NoReply

NextWatch ==
    \/ \E u \in Users, s \in WatchSymbols, r \in BOOLEAN :
           add_to_watchlist_command(u, s, r)
    \/ \E u \in Users, s \in WatchSymbols, r \in BOOLEAN :
           button_add(u, s, r)
    \/ \E u \in Users, s \in WatchSymbols :
           remove_from_watchlist_command(u, s)

SpecWatch == InitWatch /\ [][NextWatch]_vars

\* ------------------------------------------------------------------------
\* Users who only view and change their settings
\* ------------------------------------------------------------------------

NextSettings == Settings

SpecSettings == InitWatch /\ [][NextSettings]_vars

\* ------------------------------------------------------------------------
\* Users who edit their watchlists and scan while the job queue refreshes
\* ------------------------------------------------------------------------

\* A market in which the first default symbol and the first other symbol
\* are opportunities.
EditsMarket ==
    [s \in Symbols |->
        IF s = 1 THEN "golden65"
        ELSE IF s = NumDefault + 1 THEN "strong90" ELSE "flat"]

\* A polling bot with nothing stored whose job queue has just started the
\* refresh job (lines 1024-1030), the dispatcher being idle.
InitEdits ==
    /\ subscribers = {}
    /\ user_watchlists = EmptyDict
    /\ user_preferences = EmptyDict
    /\ current_opportunities = <<>>
    /\ polling = TRUE
    /\ frame = [t \in Threads |->
                  IF t = "job"
                  THEN HandlerEntry("refresh", NoUser, 0, NoUser, EmptyDict)
                  ELSE IdleFrame]
    /\ market = EditsMarket
    /\ seen = <<>>
    /\ analysis = NoAnalysis
    /\ reply = NoReply

\* The dispatcher runs one handler at a time (no handler is registered with
\* run_async, lines 1050-1063); the job queue runs its jobs in a thread of
\* its own.
NextEdits ==
    \/ Watch
    \/ \E u \in Users : scan_command(u)
    \/ refresh_opportunities
    \/ \E t \in Threads : MarketStep(t)
    \/ \E t \in Threads : ScanFinish(t)
    \/ \E t \in Threads : UpdateReturn(t)
    \/ \E t \in Threads : HandlerEnd(t)

SpecEdits == InitEdits /\ [][NextEdits]_vars

\* ------------------------------------------------------------------------
\* Claims about a scan pass
\* ------------------------------------------------------------------------

\* Thread t holds the list its own scan has just returned: a user's scan at
\* the end of its handler, or a global one about to be bound at line 321.
Returned(t) ==
    \/ frame[t].pc = "return"
    \/ frame[t].pc = "done" /\ frame[t].user_id # NoUser

\* The place of a symbol in the universe of thread t's scan.
Place(t, symbol) ==
    CHOOSE i \in 1 .. Len(frame[t].symbols) : frame[t].symbols[i] = symbol

Accepted(op) == op.confidence >= 60 /\ op.risk_reward >= 15

AllAccepted(seq) == \A i \in 1 .. Len(seq) : Accepted(seq[i])

\* C1: every opportunity a scan collects or returns, and every opportunity
\* of the global list, has confidence >= 60 and risk/reward >= 1.5.
C1_AcceptedOnly ==
    /\ AllAccepted(current_opportunities)
    /\ \A t \in Threads :
          AllAccepted(frame[t].ret) /\ AllAccepted(frame[t].opportunities)

\* A scan has returned opportunities from a universe in which one symbol
\* had confidence 40 and another had no risk.
C1_Witness ==
    \E t \in Threads :
       /\ Returned(t)
       /\ frame[t].ret # <<>>
       /\ \E i, j \in 1 .. Len(frame[t].symbols) :
             /\ market[frame[t].symbols[i]] = "weak40"
             /\ market[frame[t].symbols[j]] = "norange65"

\* a ranks strictly above b by (confidence, risk_reward).
Above(a, b) ==
    \/ a.confidence > b.confidence
    \/ a.confidence = b.confidence /\ a.risk_reward > b.risk_reward

SameKey(a, b) ==
    a.confidence = b.confidence /\ a.risk_reward = b.risk_reward

\* a comes before b in the stable descending order of thread t's scan.
Before(t, a, b) ==
    Above(a, b) \/ (SameKey(a, b) /\ Place(t, a.symbol) < Place(t, b.symbol))

\* C2: the list a scan returns holds collected opportunities only, and of
\* two adjacent entries the earlier has the higher confidence, or the same
\* confidence and the higher risk/reward, or the same of both and the earlier
\* place in the scan.
C2_StableDescending ==
    \A t \in Threads :
       Returned(t) =>
          LET r == frame[t].ret
          IN /\ \A i \in 1 .. Len(r) : InSeq(r[i], frame[t].opportunities)
             /\ \A i \in 1 .. Len(r) - 1 : Before(t, r[i], r[i + 1])

\* A returned list that the sort had to reorder and that holds two entries
\* of equal key.
C2_Witness ==
    \E t \in Threads :
       /\ Returned(t)
       /\ \E i \in 1 .. Len(frame[t].ret) - 1 :
             SameKey(frame[t].ret[i], frame[t].ret[i + 1])
       /\ \E i \in 1 .. Len(frame[t].opportunities) - 1 :
             Above(frame[t].opportunities[i + 1], frame[t].opportunities[i])

\* C3: no returned list and no global list is longer than 10; a scan returns
\* all it collected up to 10, and whatever it leaves out comes after every
\* entry it returns in the stable descending order.
C3_TopTen ==
    /\ Len(current_opportunities) <= 10
    /\ \A t \in Threads :
          /\ Len(frame[t].ret) <= 10
          /\ Returned(t) =>
                LET r == frame[t].ret
                    all == frame[t].opportunities
                IN /\ Len(r) = (IF Len(all) < 10 THEN Len(all) ELSE 10)
                   /\ \A i \in 1 .. Len(all) :
                         InSeq(all[i], r)
                         \/ \A k \in 1 .. Len(r) : Before(t, r[k], all[i])

\* A scan that collected more than 10 and left out one that was collected
\* before an entry it returns.
C3_Witness ==
    \E t \in Threads :
       /\ Returned(t)
       /\ Len(frame[t].opportunities) > 10
       /\ \E i \in 1 .. Len(frame[t].opportunities) :
             /\ ~InSeq(frame[t].opportunities[i], frame[t].ret)
             /\ \E k \in 1 .. Len(frame[t].ret) :
                   Place(t, frame[t].ret[k].symbol)
                   > Place(t, frame[t].opportunities[i].symbol)

\* The scan of a universe in which no symbol fails: every symbol evaluated.
RECURSIVE CollectAll(_, _)
CollectAll(symbols, answers) ==
    IF symbols = <<>> THEN <<>>
    ELSE Evaluate(Head(symbols), Quote(answers[Head(symbols)]))
         \o CollectAll(Tail(symbols), answers)

Fails(symbol) == Failing(Quote(market[symbol]))

\* C4: the list a scan returns holds no symbol whose fetch or analysis
\* failed, and it is the list the scan of the universe without the failing
\* symbols returns.
C4_FailureIsolated ==
    \A t \in Threads :
       Returned(t) =>
          /\ \A i \in 1 .. Len(frame[t].ret) : ~Fails(frame[t].ret[i].symbol)
          /\ frame[t].ret =
                SortTruncate(
                    CollectAll(SelectSeq(frame[t].symbols,
                                         LAMBDA s : ~Fails(s)),
                               market))

\* A scan whose first symbol failed and that returned a later one.
C4_Witness ==
    \E t \in Threads :
       /\ Returned(t)
       /\ Fails(frame[t].symbols[1])
       /\ frame[t].ret # <<>>

\* ------------------------------------------------------------------------
\* Claims about the fusion of one symbol's strategies
\* ------------------------------------------------------------------------

\* The eight primary predicates in the order the code tests them, as the
\* pass found them: the eighth is the band breakout together with RSI > 65.
PrimaryFired(k) ==
    CASE k = 1 -> analysis.st.golden_cross
      [] k = 2 -> analysis.st.rsi_bounce
      [] k = 3 -> analysis.st.macd_cross
      [] k = 4 -> analysis.st.bb_bounce
      [] k = 5 -> analysis.st.death_cross
      [] k = 6 -> analysis.st.rsi_overbought
      [] k = 7 -> analysis.st.macd_cross_down
      [] k = 8 -> analysis.st.bb_breakout
                  /\ analysis.cRSI # NaN /\ analysis.cRSI > 65

PrimaryDirection(k) == IF k \in 1 .. 4 THEN "BUY" ELSE "SELL"

PrimaryWeight(k) ==
    CASE k = 1 -> 30 [] k = 2 -> 25 [] k = 3 -> 25 [] k = 4 -> 20
      [] k = 5 -> 30 [] k = 6 -> 25 [] k = 7 -> 25 [] k = 8 -> 20

FiredSet == {k \in 1 .. 8 : PrimaryFired(k)}

LastFired == CHOOSE k \in FiredSet : \A j \in FiredSet : j <= k

RECURSIVE SumWeights(_)
SumWeights(set) ==
    IF set = {} THEN 0
    ELSE LET k == CHOOSE x \in set : TRUE
         IN PrimaryWeight(k) + SumWeights(set \ {k})

Fused == analysis.pc \in {"confirm", "build", "done"}

\* C5: once the eight predicates were tested in order, the direction is the
\* direction of the last predicate that fired (a fired predicate sets it when
\* none was set, keeps it when it agrees, overrides it when it disagrees, so
\* any fired SELL predicate beats every BUY predicate), and there is no
\* direction exactly when no predicate fired.
C5_LastFiredDecides ==
    Fused =>
        /\ (FiredSet = {} <=> analysis.signal = None)
        /\ (FiredSet # {} => analysis.signal = PrimaryDirection(LastFired))
        /\ ((\E k \in 5 .. 8 : PrimaryFired(k)) => analysis.signal = "SELL")
        /\ \A k \in 1 .. 8 :
              LET before == FuseAfter(k - 1, analysis.st, analysis.cRSI).signal
                  after == FuseAfter(k, analysis.st, analysis.cRSI).signal
              IN IF PrimaryFired(k)
                 THEN after = PrimaryDirection(k)
                 ELSE after = before

\* A BUY predicate and a SELL predicate both fired and the pass was fused.
C5_Witness ==
    /\ Fused
    /\ \E k \in 1 .. 4 : PrimaryFired(k)
    /\ \E k \in 5 .. 8 : PrimaryFired(k)
    /\ analysis.signal = "SELL"

\* C6: the confidence before the confirmations is the sum of the weights of
\* every predicate that fired, whatever its direction and whatever the final
\* direction: an overridden BUY predicate still counts.
C6_ConfidenceIsSumOfFired ==
    Fused => analysis.primary = SumWeights(FiredSet)

\* The golden cross (30) was overridden by RSI overbought (25) and both
\* weights are in the confidence.
C6_Witness ==
    /\ Fused
    /\ FiredSet = {1, 6}
    /\ analysis.signal = "SELL"
    /\ analysis.primary = 55

\* ------------------------------------------------------------------------
\* Claims about the symbol universe
\* ------------------------------------------------------------------------

\* The watchlist of the user a running scan is for: empty without a user.
WatchlistOf(t) ==
    IF frame[t].user_id # NoUser /\ frame[t].user_id \in DOMAIN user_watchlists
    THEN user_watchlists[frame[t].user_id]
    ELSE <<>>

\* The default symbols that are not in the list, in their own order.
MissingDefaults(list) ==
    SelectSeq(DEFAULT_SYMBOLS, LAMBDA d : \A i \in 1 .. Len(list) : list[i] # d)

\* C7 as stated: for every user and every watchlist size, the universe of a
\* scan is the watchlist in its order followed by the default symbols that
\* are not in it.
C7_WatchlistThenDefaults ==
    \A t \in Threads :
        frame[t].pc = "scan" =>
            frame[t].symbols = WatchlistOf(t) \o MissingDefaults(WatchlistOf(t))

\* C7, amended: the universe is the watchlist followed by the missing default
\* symbols when the scan has no user or the watchlist has fewer than 50
\* symbols; for a user whose watchlist has 50 symbols or more it is the
\* watchlist alone.
C7_DefaultsBelowFifty ==
    \A t \in Threads :
        frame[t].pc = "scan" =>
            frame[t].symbols =
                IF frame[t].user_id # NoUser /\ Len(WatchlistOf(t)) >= 50
                THEN WatchlistOf(t)
                ELSE WatchlistOf(t) \o MissingDefaults(WatchlistOf(t))

\* A scan for a user whose watchlist has at least 50 symbols and lacks a
\* default symbol: the universe is the watchlist, the default symbol is not
\* scanned.
C7_Witness ==
    \E t \in Threads :
        /\ frame[t].pc = "scan"
        /\ frame[t].user_id # NoUser
        /\ Len(WatchlistOf(t)) >= 50
        /\ MissingDefaults(WatchlistOf(t)) # <<>>
        /\ frame[t].symbols = WatchlistOf(t)

\* ------------------------------------------------------------------------
\* Claims about a broadcast pass
\* ------------------------------------------------------------------------

\* The subscriber has alerts enabled (no record means enabled).
AlertsOn(s) == s \notin DOMAIN user_preferences \/ user_preferences[s].daily_alerts

\* The subscriber's minimum confidence (no record means 60).
Minimum(s) ==
    IF s \in DOMAIN user_preferences THEN user_preferences[s].min_confidence
    ELSE 60

\* The positions of the shared list the subscriber accepts.
Acceptable(s, list) == {i \in 1 .. Len(list) : list[i].confidence >= Minimum(s)}

\* The subscriber is owed an alert from the shared list.
Eligible(s, list) == AlertsOn(s) /\ Acceptable(s, list) # {}

\* The highest-ranked opportunity the subscriber accepts.
TopFor(s, list) ==
    list[CHOOSE i \in Acceptable(s, list) : \A j \in Acceptable(s, list) : i <= j]

\* The alerts of a set of messages, without the pointer to /watchlist.
Received(sent) == {<<a.chat, a.opp>> : a \in sent}

\* C8: in a broadcast pass the subscribers that receive an alert are exactly
\* the subscribed users with alerts enabled for whom the shared list has an
\* opportunity at or above their minimum confidence, each receiving the
\* highest-ranked such opportunity: every turn of the loop gives the
\* subscriber it handles that alert or, if the subscriber is not owed one,
\* nothing; and the pass does not end while a subscriber that is owed an
\* alert has not had a turn.
C8_ExactlyEligible ==
    [][\A t \in Threads :
         (frame[t].pc = "loop" /\ frame'[t] # frame[t]) =>
            \/ /\ frame'[t].pc = "loop"
               /\ \E s \in frame[t].todo :
                     /\ frame'[t].todo = frame[t].todo \ {s}
                     /\ Received(frame'[t].sent) =
                           Received(frame[t].sent) \cup
                           (IF Eligible(s, frame[t].ret)
                            THEN {<<s, TopFor(s, frame[t].ret)>>} ELSE {})
            \/ /\ frame'[t].pc = "done"
               /\ frame'[t].sent = frame[t].sent
               /\ \A s \in frame[t].todo : ~Eligible(s, frame[t].ret)]_vars

\* The preference dicts that differ from the stored one only in the
\* min_risk_reward values.
RiskRewardVariants ==
    {alt \in [DOMAIN user_preferences ->
                [daily_alerts : BOOLEAN, min_confidence : ConfButtons,
                 min_risk_reward : RiskRewardButtons]] :
        \A u \in DOMAIN user_preferences :
            /\ alt[u].daily_alerts = user_preferences[u].daily_alerts
            /\ alt[u].min_confidence = user_preferences[u].min_confidence}

\* C9: what a broadcast pass delivers does not depend on the stored
\* min_risk_reward values: at every turn of the loop, the messages for the
\* subscriber are the same under every other choice of those values.  (The
\* scan and the rest of the pass do not read the preferences at all.)
C9_RiskRewardIgnored ==
    \A t \in Threads :
        frame[t].pc = "loop" =>
            \A s \in frame[t].todo, alt \in RiskRewardVariants :
                Deliver(s, frame[t].ret, alt) =
                    Deliver(s, frame[t].ret, user_preferences)

\* A subscriber who asks for a risk/reward of at least 2.5 has received an
\* opportunity whose risk/reward is 2.0.
C9_Witness ==
    \E t \in Threads : \E a \in frame[t].sent :
        /\ frame[t].op = "broadcast"
        /\ a.chat \in DOMAIN user_preferences
        /\ user_preferences[a.chat].min_risk_reward = 25
        /\ a.opp.risk_reward = 20

\* ------------------------------------------------------------------------
\* Claims about the global list
\* ------------------------------------------------------------------------

\* C10: the global list is replaced as a whole.  It changes only when a
\* scan without a user has gone through all its symbols, and then to that
\* scan's complete result (sorted, cut to ten); and every read of it, at line
\* 322 and at line 488, takes the list as it stands, which therefore is the
\* initial empty list or the complete result of a finished global scan.
C10_AtomicReplace ==
    [][/\ current_opportunities' # current_opportunities =>
            \E t \in Threads :
                /\ frame[t].pc = "scan"
                /\ frame[t].user_id = NoUser
                /\ frame[t].idx >= Len(frame[t].symbols)
                /\ current_opportunities' = Take(Sort(frame[t].opportunities), 10)
       /\ seen' # seen => seen' = current_opportunities
       /\ \A t \in Threads :
            (frame[t].pc = "return" /\ frame'[t] # frame[t]) =>
                frame'[t].ret = current_opportunities]_vars

\* /details has read a non-empty global list at line 488 while a global scan
\* on the other thread holds a partial result.
C10_Witness ==
    /\ seen # <<>>
    /\ frame["disp"].op = "details_command"
    /\ frame["disp"].pc = "done"
    /\ frame["job"].pc = "scan"
    /\ frame["job"].user_id = NoUser
    /\ frame["job"].opportunities # <<>>
    /\ frame["job"].idx < Len(frame["job"].symbols)
    /\ frame["job"].opportunities # current_opportunities

\* ------------------------------------------------------------------------
\* Claims about /start during a broadcast pass
\* ------------------------------------------------------------------------

\* C11: a /start that interleaves with a broadcast pass is safe: the pass
\* does not fail, and when it is over every subscriber that was in the set
\* when its loop started has had its turn.
C11_SubscribeDuringPassSafe ==
    \A t \in Threads :
        /\ ~frame[t].error
        /\ (frame[t].op = "broadcast" /\ frame[t].pc = "done"
                => frame[t].todo = {})

\* ------------------------------------------------------------------------
\* Claims about the watchlists
\* ------------------------------------------------------------------------

\* The list holds no symbol twice.
NoDuplicates(list) ==
    \A i, j \in 1 .. Len(list) : list[i] = list[j] => i = j

\* C12: whatever users add and remove, by command or by button, no watchlist
\* holds the same symbol twice, and a user who has a watchlist keeps one.
C12_NoDuplicatesNeverDeleted ==
    /\ [](\A u \in DOMAIN user_watchlists : NoDuplicates(user_watchlists[u]))
    /\ [][DOMAIN user_watchlists \subseteq DOMAIN user_watchlists']_vars

\* A user was told the symbol is already there, with two symbols in the
\* list, and a user who removed everything still has an (empty) watchlist.
C12_Witness ==
    /\ reply.text = "already"
    /\ Len(user_watchlists[reply.to]) >= 2
    /\ InSeq(reply.symbol, user_watchlists[reply.to])
    /\ \E u \in DOMAIN user_watchlists : user_watchlists[u] = <<>>

\* ------------------------------------------------------------------------
\* Claims about the preferences
\* ------------------------------------------------------------------------

\* The record a subscriber starts from: alerts on, 60, 1.5 (in tenths).
PreferenceDefaults ==
    [daily_alerts |-> TRUE, min_confidence |-> 60, min_risk_reward |-> 15]

PreferenceKeys == {"daily_alerts", "min_confidence", "min_risk_reward"}

\* The record of u before a step, a missing one counting as the defaults.
PreferencesBefore(u) ==
    IF u \in DOMAIN user_preferences THEN user_preferences[u]
    ELSE PreferenceDefaults

\* The keys of u's record that a step changes; creating the record with
\* the defaults changes none.
KeysChanged(u) ==
    IF u \in DOMAIN user_preferences'
    THEN {k \in PreferenceKeys : user_preferences'[u][k] # PreferencesBefore(u)[k]}
    ELSE {}

\* C13: every record holds the three keys; a record starts from the defaults
\* (true, 60, 1.5) and a key keeps its value until a step changes it, a step
\* changing at most one key of one subscriber's record and leaving every
\* other key and every other record as it was; a settings button stores the
\* value it names for its key; no record is deleted.
\* The dict p is the stored one with u's record replaced by `record`.
OnlyRecordSet(p, u, record) ==
    /\ DOMAIN p = DOMAIN user_preferences \cup {u}
    /\ p[u] = record
    /\ \A v \in DOMAIN user_preferences \ {u} : p[v] = user_preferences[v]

\* What each handler stores, from the state the bot is in: the value chosen
\* for the key of the button, the stored or default value for the others.
HandlersStoreTheChoice ==
    \A u \in Users :
        /\ OnlyRecordSet(WithPreferences(user_preferences, u), u,
                         PreferencesBefore(u))
        /\ OnlyRecordSet(ToggleAlerts(user_preferences, u), u,
               [PreferencesBefore(u) EXCEPT
                   !.daily_alerts = ~PreferencesBefore(u).daily_alerts])
        /\ \A v \in ConfButtons :
              OnlyRecordSet(SetConfidence(user_preferences, u, v), u,
                  [PreferencesBefore(u) EXCEPT !.min_confidence = v])
        /\ \A v \in RiskRewardButtons :
              OnlyRecordSet(SetRiskReward(user_preferences, u, v), u,
                  [PreferencesBefore(u) EXCEPT !.min_risk_reward = v])

C13_PreferencesFrame ==
    /\ [](\A u \in DOMAIN user_preferences :
             DOMAIN user_preferences[u] = PreferenceKeys)
    /\ []HandlersStoreTheChoice
    /\ [][/\ DOMAIN user_preferences \subseteq DOMAIN user_preferences'
          /\ \A u \in Users :
                /\ Cardinality(KeysChanged(u)) <= 1
                /\ \A v \in Users \ {u} :
                      KeysChanged(u) # {} =>
                          /\ KeysChanged(v) = {}
                          /\ (v \in DOMAIN user_preferences' =>
                                  v \in DOMAIN user_preferences)]_vars

\* One subscriber changed every key, the other only looked at the settings.
C13_Witness ==
    /\ DOMAIN user_preferences = Users
    /\ \E u \in Users :
          /\ user_preferences[u] =
                [daily_alerts |-> FALSE, min_confidence |-> 80,
                 min_risk_reward |-> 25]
          /\ \A v \in Users \ {u} : user_preferences[v] = PreferenceDefaults

\* ------------------------------------------------------------------------
\* Claims about the indicators of one pass
\* ------------------------------------------------------------------------

\* The moving averages of the last two rows are known to the pass.
AveragesRead == analysis.pc = "rsi"

Number(x) == x # NaN

\* C14: the golden cross fires if and only if the previous SMA20 is strictly
\* below the previous SMA50 and the current SMA20 strictly above the current
\* SMA50; with the averages equal on either row (or missing) it does not.
C14_GoldenCrossStrict ==
    AveragesRead =>
        /\ analysis.st.golden_cross <=>
              /\ Number(analysis.pSMA20) /\ Number(analysis.pSMA50)
              /\ Number(analysis.cSMA20) /\ Number(analysis.cSMA50)
              /\ analysis.pSMA20 < analysis.pSMA50
              /\ analysis.cSMA20 > analysis.cSMA50
        /\ (analysis.pSMA20 = analysis.pSMA50
            \/ analysis.cSMA20 = analysis.cSMA50) => ~analysis.st.golden_cross

\* The averages were equal on the previous row and SMA20 is above SMA50 on
\* the current one: no golden cross.
C14_Witness ==
    /\ AveragesRead
    /\ Number(analysis.pSMA20)
    /\ analysis.pSMA20 = analysis.pSMA50
    /\ Number(analysis.cSMA50)
    /\ analysis.cSMA20 > analysis.cSMA50
    /\ ~analysis.st.golden_cross

\* The mean gain and loss of the current row are known to the pass.
MovesRead == analysis.pc = "macd"

\* C15: where the 14-row window is full (it is for every series the pass
\* analyses, which has at least 30 rows), RSI is a value in [0, 100], also
\* when the window is flat, and it is 100 exactly when the mean loss is 0 and
\* the mean gain is above 0.
C15_RSIInRange ==
    MovesRead =>
        /\ Number(analysis.cRSI)
        /\ analysis.cRSI >= 0
        /\ analysis.cRSI <= 100
        /\ analysis.cRSI = 100 <=> (analysis.loss = 0 /\ analysis.gain > 0)

\* The same for the windows that are not flat.
RSIInRangeUnlessFlat ==
    (MovesRead /\ ~(analysis.gain = 0 /\ analysis.loss = 0)) =>
        /\ Number(analysis.cRSI)
        /\ analysis.cRSI >= 0
        /\ analysis.cRSI <= 100
        /\ analysis.cRSI = 100 <=> (analysis.loss = 0 /\ analysis.gain > 0)

\* ------------------------------------------------------------------------
\* Claims about the confirmations and the builder of one pass
\* ------------------------------------------------------------------------

\* The confirmations were added, and the gates were passed or not.
Confirmed == analysis.pc \in {"build", "done"}
Built == analysis.pc = "done"

\* The golden cross is the only primary predicate that fired, the close is
\* not above SMA20 and the volume is not above 1.5 times its average:
\* nothing but the cross itself speaks for the BUY.
GoldenCrossAlone ==
    /\ FiredSet = {1}
    /\ ~(Number(analysis.cClose) /\ Number(analysis.cSMA20)
         /\ analysis.cClose > analysis.cSMA20)
    /\ ~(2 * analysis.volume > 3 * analysis.volAvg)

Bonus(strong) ==
    LET close == analysis.cClose
        sma20 == analysis.cSMA20
        sma50 == analysis.cSMA50
        known20 == Number(close) /\ Number(sma20)
        known50 == Number(sma20) /\ Number(sma50)
    IN CASE analysis.signal = "BUY" ->
              (IF known20 /\ close > sma20 THEN 10 ELSE 0)
            + (IF known50 /\ sma20 > sma50 THEN 10 ELSE 0)
            + (IF strong THEN 15 ELSE 0)
         [] analysis.signal = "SELL" ->
              (IF known20 /\ close < sma20 THEN 10 ELSE 0)
            + (IF known50 /\ sma20 < sma50 THEN 10 ELSE 0)
            + (IF strong THEN 15 ELSE 0)
         [] OTHER -> 0

\* C17 as stated: for the final direction the confirmations add 10 for the
\* close on the right side of SMA20, 10 for SMA20 on the right side of SMA50
\* and 15 when the volume is at least 1.5 times its 20-bar average, and
\* nothing when there is no direction.
C17_ConfirmationsAtLeast ==
    Confirmed =>
        analysis.confidence =
            analysis.primary + Bonus(2 * analysis.volume >= 3 * analysis.volAvg)

\* C17, amended: the same, the 15 being added only when the volume is
\* strictly above 1.5 times its 20-bar average.
C17_ConfirmationsAbove ==
    Confirmed =>
        analysis.confidence =
            analysis.primary + Bonus(2 * analysis.volume > 3 * analysis.volAvg)

\* A BUY whose volume is exactly 1.5 times the average: the 15 is not added.
C17_Witness ==
    /\ Confirmed
    /\ analysis.signal = "BUY"
    /\ 2 * analysis.volume = 3 * analysis.volAvg
    /\ analysis.confidence = analysis.primary + 20

\* C18: for a signal at or above confidence 60 the builder sets, for BUY,
\* target = price + 2 ATR and stop = price - ATR, and for SELL target =
\* price - 2 ATR and stop = price + ATR (ATR = atr_frac * price); when the
\* risk is not positive (ATR = 0) the risk/reward is 0 and the symbol is
\* rejected, otherwise it is accepted with these prices.
C18_TargetStopRisk ==
    (Built /\ analysis.signal # None /\ analysis.confidence >= 60) =>
        LET price == analysis.price
            atr == analysis.atrMean
            up == analysis.signal = "BUY"
            target == IF up THEN price + 2 * atr ELSE price - 2 * atr
            stop == IF up THEN price - atr ELSE price + atr
            risk == IF up THEN price - stop ELSE stop - price
        IN IF risk <= 0
           THEN analysis.out = <<>>
           ELSE /\ Len(analysis.out) = 1
                /\ analysis.out[1].price = price
                /\ analysis.out[1].target_price = target
                /\ analysis.out[1].stop_loss = stop
                /\ analysis.out[1].risk_reward = 20

\* A SELL at or above 60 on a series with no range: risk 0, rejected.
C18_Witness ==
    /\ Built
    /\ analysis.signal = "SELL"
    /\ analysis.confidence >= 60
    /\ analysis.atrMean = 0
    /\ analysis.out = <<>>

\* A SELL was accepted with its target below and its stop above the price.
SellAccepted ==
    /\ Built
    /\ Len(analysis.out) = 1
    /\ analysis.out[1].signal = "SELL"
    /\ analysis.out[1].target_price < analysis.out[1].price
    /\ analysis.out[1].stop_loss > analysis.out[1].price

\* ------------------------------------------------------------------------
\* Claims about the scheduled triggers
\* ------------------------------------------------------------------------

\* The handler in thread t is the startup scan or the periodic refresh.
Refreshing(t) == frame[t].op \in {"startup", "refresh"}

\* C19: the startup scan and the periodic refresh scan the default universe,
\* replace the global list with the result of that scan, and send nothing;
\* of the scheduled triggers only the broadcast passes send messages.
C19_RefreshIsSilent ==
    /\ [](\A t \in Threads :
             /\ Refreshing(t) =>
                   /\ frame[t].sent = {}
                   /\ frame[t].pc # "loop"
                   /\ frame[t].user_id = NoUser
                   /\ (frame[t].pc = "scan" =>
                          frame[t].symbols = DEFAULT_SYMBOLS)
             /\ (frame[t].sent # {} /\ frame[t].caller = NoUser) =>
                   frame[t].op = "broadcast")
    /\ [][\A t \in Threads :
            (Refreshing(t) /\ frame[t].pc = "scan" /\ frame'[t].pc # "scan") =>
                /\ frame'[t].pc = "return"
                /\ current_opportunities' =
                       Take(Sort(frame[t].opportunities), 10)]_vars

\* The periodic refresh has replaced the global list and is over, with
\* subscribers present and nothing sent.
C19_Witness ==
    \E t \in Threads :
        /\ frame[t].op = "refresh"
        /\ frame[t].pc = "done"
        /\ subscribers # {}
        /\ frame[t].ret # <<>>
        /\ current_opportunities = frame[t].ret
        /\ frame[t].sent = {}

\* ------------------------------------------------------------------------
\* Claims about the answers of /add and /remove
\* ------------------------------------------------------------------------

\* The symbols of a user's watchlist, none for a user without one.
Contents(watchlists, u) ==
    IF u \in DOMAIN watchlists THEN watchlists[u] ELSE <<>>

\* No user's symbols change in the step.
ContentsUnchanged ==
    \A u \in Users :
        Contents(user_watchlists', u) = Contents(user_watchlists, u)

\* The list without the symbol, the other symbols in their order.
Without(list, symbol) == SelectSeq(list, LAMBDA x : x # symbol)

\* The step is the handling of a /add, of the add button, or of a /remove.
AddHandled == reply'.text \in {"added", "already", "could_not_find"}
RemoveHandled == reply'.text \in {"removed", "not_in_watchlist"}

\* The rules of C20 for one handled command.
WatchlistAnswers ==
    LET u == reply'.to
        symbol == reply'.symbol
        before == Contents(user_watchlists, u)
    IN /\ (AddHandled /\ symbol \in Unlisted) =>
              /\ reply'.text = "could_not_find"
              /\ ContentsUnchanged
       /\ reply'.text = "could_not_find" => ContentsUnchanged
       /\ RemoveHandled =>
              (reply'.text = "not_in_watchlist" <=> ~InSeq(symbol, before))
       /\ reply'.text = "not_in_watchlist" => ContentsUnchanged
       /\ reply'.text = "removed" =>
              /\ Contents(user_watchlists', u) = Without(before, symbol)
              /\ \A v \in Users \ {u} :
                    Contents(user_watchlists', v) = Contents(user_watchlists, v)

\* C20: an add of a symbol the data provider cannot resolve is rejected and
\* the symbol is added to no watchlist; a remove of a symbol that is not in
\* the user's watchlist answers that it is not there; in both cases no
\* user's symbols change; a successful remove takes only that symbol out of
\* only that user's watchlist.
C20_WatchlistErrors ==
    /\ [](\A u \in DOMAIN user_watchlists, s \in Unlisted :
             ~InSeq(s, user_watchlists[u]))
    /\ [][(reply' # reply \/ user_watchlists' # user_watchlists)
              => WatchlistAnswers]_vars

\* The same rules when the provider raises for every symbol it cannot
\* resolve: an add counts as unresolved exactly when ticker.info raised.
AnswersWhenProviderRaises ==
    [][(reply' # reply \/ user_watchlists' # user_watchlists) =>
          LET u == reply'.to
              symbol == reply'.symbol
              before == Contents(user_watchlists, u)
          IN /\ reply'.text = "could_not_find" => ContentsUnchanged
             /\ RemoveHandled =>
                    (reply'.text = "not_in_watchlist" <=> ~InSeq(symbol, before))
             /\ reply'.text = "not_in_watchlist" => ContentsUnchanged
             /\ reply'.text = "removed" =>
                    /\ Contents(user_watchlists', u) = Without(before, symbol)
                    /\ \A v \in Users \ {u} :
                          Contents(user_watchlists', v) =
                              Contents(user_watchlists, v)]_vars

\* ------------------------------------------------------------------------
\* Claims about the risk/reward of a scan's opportunities
\* ------------------------------------------------------------------------

\* Every entry of the list has risk/reward 2.0 (in tenths).
AllTwo(seq) == \A i \in 1 .. Len(seq) : seq[i].risk_reward = 20

\* The answer q passes the confidence gate of line 248.
Confident(q) ==
    LET f == Fuse(Strategies(q), RSI(q.cGain, q.cLoss))
    IN /\ f.signal # None
       /\ f.confidence
          + Confirmations(f.signal, q.cClose, SMA20(q.c20, q.n),
                          SMA50(q.c50, q.n), q.volume, q.volAvg) >= 60

\* The scan of thread t collected an opportunity for the symbol.
Collected(t, symbol) ==
    \E i \in 1 .. Len(frame[t].opportunities) :
        frame[t].opportunities[i].symbol = symbol

\* C21: every opportunity a scan accepts has risk/reward exactly 2.0; of the
\* symbols that pass the confidence gate the risk/reward gate rejects those
\* and only those whose risk is not positive (no range: ATR 0); and in a
\* returned list two adjacent entries have descending confidence or equal
\* confidence and scan order: the risk/reward never decides.
C21_RiskRewardAlwaysTwo ==
    /\ AllTwo(current_opportunities)
    /\ \A t \in Threads :
          /\ AllTwo(frame[t].opportunities)
          /\ AllTwo(frame[t].ret)
          /\ \A i \in 1 .. frame[t].idx :
                LET symbol == frame[t].symbols[i]
                    q == Quote(market[symbol])
                IN (~Failing(q) /\ Confident(q)) =>
                       (Collected(t, symbol) <=> q.atrMean > 0)
          /\ Returned(t) =>
                \A i \in 1 .. Len(frame[t].ret) - 1 :
                    LET a == frame[t].ret[i]
                        b == frame[t].ret[i + 1]
                    IN \/ a.confidence > b.confidence
                       \/ /\ a.confidence = b.confidence
                          /\ Place(t, a.symbol) < Place(t, b.symbol)

\* A scan returned two entries of equal confidence next to each other, from
\* a universe in which a symbol at confidence 65 had no range and was
\* rejected.
C21_Witness ==
    \E t \in Threads :
       /\ Returned(t)
       /\ \E i \in 1 .. Len(frame[t].ret) - 1 :
             frame[t].ret[i].confidence = frame[t].ret[i + 1].confidence
       /\ \E i \in 1 .. Len(frame[t].symbols) :
             /\ market[frame[t].symbols[i]] = "norange65"
             /\ ~Collected(t, frame[t].symbols[i])


\* ------------------------------------------------------------------------
\* Claims about indicators whose window is not full
\* ------------------------------------------------------------------------

\* len(hist) is still known: the Bollinger columns have not been computed.
LengthKnown == analysis.pc \in {"rsi", "macd", "bands"}

\* The confirmation of the close's side of SMA20 for the final direction.
CloseSide ==
    /\ Number(analysis.cClose) /\ Number(analysis.cSMA20)
    /\ \/ analysis.signal = "BUY" /\ analysis.cClose > analysis.cSMA20
       \/ analysis.signal = "SELL" /\ analysis.cClose < analysis.cSMA20

\* C22: a predicate or confirmation that compares an indicator which is
\* undefined on the current or the previous row never fires.  The golden
\* cross fires only with SMA20 and SMA50 defined on both rows, hence never on
\* fewer than 51 rows; the death cross only with SMA50 and SMA200 defined on
\* both rows, hence never on fewer than 201 rows; the RSI strategies only
\* with the RSI they read defined; and with SMA50 undefined on the current
\* row the trend confirmation adds nothing.  Every series has 30 rows or more.
C22_UndefinedNeverFires ==
    /\ LengthKnown =>
          /\ analysis.n >= 30
          /\ analysis.st.golden_cross => analysis.n >= 51
          /\ analysis.st.death_cross => analysis.n >= 201
          /\ analysis.n < 50 => analysis.cSMA50 = NaN
    /\ AveragesRead =>
          /\ analysis.st.golden_cross =>
                /\ Number(analysis.pSMA20) /\ Number(analysis.pSMA50)
                /\ Number(analysis.cSMA20) /\ Number(analysis.cSMA50)
          /\ analysis.st.death_cross =>
                /\ Number(analysis.pSMA50) /\ Number(analysis.pSMA200)
                /\ Number(analysis.cSMA50) /\ Number(analysis.cSMA200)
          /\ analysis.n < 51 => analysis.pSMA50 = NaN
          /\ analysis.n < 201 => analysis.pSMA200 = NaN
          /\ analysis.n < 200 => analysis.cSMA200 = NaN
    /\ analysis.pc = "macd" =>
          /\ analysis.st.rsi_bounce =>
                Number(analysis.pRSI) /\ Number(analysis.cRSI)
          /\ analysis.st.rsi_overbought => Number(analysis.cRSI)
    /\ (Confirmed /\ analysis.cSMA50 = NaN) =>
          analysis.confidence =
              analysis.primary
              + (IF CloseSide THEN 10 ELSE 0)
              + (IF analysis.signal # None
                    /\ 2 * analysis.volume > 3 * analysis.volAvg
                 THEN 15 ELSE 0)

\* A series of exactly 51 rows on which the golden cross fires while the
\* death cross, whose SMA200 is undefined, does not.
C22_Witness ==
    /\ AveragesRead
    /\ analysis.n = 51
    /\ analysis.st.golden_cross
    /\ ~analysis.st.death_cross
    /\ analysis.cSMA200 = NaN

\* A series of 201 rows on which the death cross fires.
DeathCrossAt201 ==
    AveragesRead /\ analysis.n = 201 /\ analysis.st.death_cross

\* A BUY on a series too short for SMA50 whose confirmations were added.
ShortSeriesConfirmed ==
    Confirmed /\ analysis.cSMA50 = NaN /\ analysis.signal = "BUY"


\* ------------------------------------------------------------------------
\* Claims about watchlist edits during a scan
\* ------------------------------------------------------------------------

\* Thread t is in a pass of the scan's loop before and after the step, and
\* it is the same pass.
SamePass(t) ==
    /\ frame[t].pc = "scan"
    /\ frame'[t].pc = "scan"
    /\ frame'[t].idx >= frame[t].idx
    /\ frame'[t].idx > 0

\* The step is one of thread t's scan for a user.
UserScanStep(t) ==
    /\ frame[t].pc = "scan"
    /\ frame[t].user_id # NoUser
    /\ frame'[t] # frame[t]

\* A step changes some watchlist.
Edited == user_watchlists' # user_watchlists

\* Over a step within a pass the list of symbols is the same and the loop is
\* where it was or one symbol further; a step of a user's scan, its return
\* included, leaves the global list alone.
UniverseStep ==
    \A t \in Threads :
       /\ SamePass(t) =>
             /\ frame'[t].symbols = frame[t].symbols
             /\ frame'[t].user_id = frame[t].user_id
             /\ frame'[t].idx \in {frame[t].idx, frame[t].idx + 1}
             /\ Edited => frame'[t] = frame[t]
       /\ UserScanStep(t) => current_opportunities' = current_opportunities

\* A scan without a user evaluates DEFAULT_SYMBOLS whatever the watchlists
\* hold; the symbols of every collected opportunity come from the pass's
\* list, in its order.
UniverseOfPass ==
    \A t \in Threads :
       frame[t].pc = "scan" =>
          /\ frame[t].user_id = NoUser => frame[t].symbols = DEFAULT_SYMBOLS
          /\ \A i \in 1 .. Len(frame[t].opportunities) :
                \E k \in 1 .. frame[t].idx :
                    frame[t].symbols[k] = frame[t].opportunities[i].symbol
          /\ \A i, j \in 1 .. Len(frame[t].opportunities) :
                i < j => Place(t, frame[t].opportunities[i].symbol)
                         < Place(t, frame[t].opportunities[j].symbol)

\* C23: the symbols of a scan pass are fixed when the pass starts: an add or
\* a remove on any watchlist while a scan runs changes neither the set nor
\* the order of the symbols the pass evaluates, and a scan for a user returns
\* its result without writing the global opportunity list.
C23_UniverseFixed == []UniverseOfPass /\ [][UniverseStep]_vars

\* The first refresh is still running, past its first symbol, the global
\* list not yet written; meanwhile user 1 has added a symbol and scanned, and
\* that scan returned both opportunities to the handler.
C23_Witness ==
    /\ frame["job"].pc = "scan"
    /\ frame["job"].idx > 0
    /\ frame["job"].symbols = DEFAULT_SYMBOLS
    /\ current_opportunities = <<>>
    /\ 1 \in DOMAIN user_watchlists
    /\ user_watchlists[1] = <<NumDefault + 1>>
    /\ frame["disp"].op = "scan_command"
    /\ frame["disp"].pc = "done"
    /\ frame["disp"].user_id = 1
    /\ Len(frame["disp"].ret) = 2

====
